---- MODULE Spec2Model ----
(***************************************************************************)
(* The dynamic batcher of the NexusML inference proxy                      *)
(* (data-plane/proxy/internal/batcher/batcher.go): producers call Submit,  *)
(* one worker goroutine (batchLoop) forms batches under a size / time /    *)
(* stop trigger, hands each batch to processFunc and routes the replies.   *)
(*                                                                         *)
(* Time is discrete.  The worker is modelled without scheduling slack: a   *)
(* tick cannot pass while one of the cases of the select the worker is     *)
(* blocked in is ready.  Ticks pass freely while processFunc runs.         *)
(***************************************************************************)
EXTENDS Integers, Sequences, FiniteSets, TLC

\* ---------------------------------------------------------------- bounds
NumRequests == 2
MaxBatchSizeBound == 2
Timeout == 2
\* Most `responses` tuples in one backend reply.
MaxTuples == 2
NumReaders == 1

\* ------------------------------------------------------ program constants
QueueFactor == 10
ReplyCap == 1
\* `http.StatusOK`
StatusOK == 200

Requests == 1..NumRequests
Readers == 1..NumReaders
AgeCap == Timeout + 1

ErrResponseNotFound == "response not found for request"
ErrCancelled == "context canceled"
ErrBackend == "backend error"
ErrMarshal == "json: error calling MarshalJSON for type json.RawMessage"
ErrNewRequest == "net/http: invalid request"
ErrRead == "unexpected EOF"
ErrUnmarshal == "invalid character in response body"
ErrModel == "model error"
NoReturn == [data |-> "", err |-> ""]

VARIABLES
    maxBatchSize,   \* Batcher.maxBatchSize
    queue,          \* Batcher.requestChan: the buffered Requests, oldest first
    stopped,        \* Batcher.stopChan is closed
    stopPc,         \* the caller of Stop: "none", "waiting" (in wg.Wait), "returned"
    wpc,            \* the worker: "init", "idle", "filling", "dispatching",
                    \* "blocked", "metrics", "done"
    batch,          \* collectBatch's batch.Requests
    elapsed,        \* ticks since the current batch's timer was created
    spc,            \* per Request, its Submit call: "new", "send", "wait", "done"
    cancelled,      \* per Request, ctx.Done() is closed
    ret,            \* per Request, the (data, error) pair Submit returned
    slot,           \* per Request, the content of the Response channel
    closed,         \* per Request, the Response channel is closed
    sends,          \* per Request, number of sends performed on its Response channel
    totalRequests,  \* Batcher.totalRequests
    totalBatches,   \* Batcher.totalBatches
    avgBatchSize,   \* Batcher.avgBatchSize, as the fraction <<num, den>>
    admitted,       \* history: the Requests in the order they entered requestChan
    dispatched,     \* history: the batches handed to processFunc, in order
    stopBatches,    \* history: Len(dispatched) when stopChan was closed, -1 before
    stopAdmitted,   \* history: Len(admitted) when stopChan was closed, -1 before
    stopClosed,     \* history: index in dispatched of the last batch that the stop
                    \* case of collectBatch's second select closed, 0 if none
    wait,           \* per Request, ticks between admission and dispatch
    reqId,          \* per Request, the id its Submit call was given
    backend,        \* what the model server does with the batch in flight (used by
                    \* DispatchSpec only)
    payload,        \* per Request, the body of its POST: [body, json], json telling
                    \* whether the body is valid JSON
    batchReq,       \* the BatchRequest ProcessBatch built last (DispatchSpec only)
    mu,             \* Batcher.mu: [writer, readers], who holds the RWMutex
    upc,            \* the worker inside updateMetrics: "out", "locked", "requests",
                    \* "batches", "avg" (the last field written)
    rpc,            \* per reader, its Metrics() call: "idle", "locked", "requests",
                    \* "batches", "avg" (the last field read)
    snap,           \* per reader, the values its Metrics() call has read
    mainPc          \* main(): "lib" (the batcher on its own), "serving",
                    \* "signalled", "shutdown", "exited" (MainSpec only)

vars == <<maxBatchSize, queue, stopped, stopPc, wpc, batch, elapsed, spc, cancelled,
          ret, slot, closed, sends, totalRequests, totalBatches, avgBatchSize,
          admitted, dispatched, stopBatches, stopAdmitted,
          stopClosed, wait, reqId, backend, payload, batchReq, mainPc,
          mu, upc, rpc, snap>>

submitVars == <<spc, cancelled, ret>>
slotVars == <<slot, closed, sends>>
metricVars == <<totalRequests, totalBatches, avgBatchSize>>
stopVars == <<stopped, stopPc, stopBatches, stopAdmitted>>
histVars == <<admitted, dispatched, stopClosed>>
lockVars == <<mu, upc, rpc, snap>>
inputVars == <<reqId, backend, payload, batchReq, mainPc, lockVars>>

\* `mu sync.RWMutex` is unlocked, the worker is outside updateMetrics and no
\* Metrics() call is in progress.
LockInit ==
    /\ mu = [writer |-> FALSE, readers |-> 0]
    /\ upc = "out"
    /\ rpc = [k \in Readers |-> "idle"]
    /\ snap = [k \in Readers |->
                [totalRequests |-> 0, totalBatches |-> 0, avgBatchSize |-> <<0, 1>>]]

\* A faulty id source that hands every caller the same id.
NewUUIDFixed(r) == 1

\* `requestID := uuid.New().String()` of the r-th predictHandler call: a random
\* 122-bit value, taken to differ from every other one.
NewUUID(r) == r

\* No batch is in flight.
NoBackend == [step |-> "none", status |-> 0, parses |-> FALSE, tuples |-> <<>>]

\* ------------------------------------------------------------------ New
QueueCap == maxBatchSize * QueueFactor

\* New accepts every maxBatchSize >= 0 (a negative one panics in make).
Init ==
    /\ maxBatchSize \in 0..MaxBatchSizeBound
    /\ queue = <<>>
    /\ stopped = FALSE
    /\ stopPc = "none"
    /\ wpc = "init"
    /\ batch = <<>>
    /\ elapsed = 0
    /\ spc = [r \in Requests |-> "new"]
    /\ cancelled = [r \in Requests |-> FALSE]
    /\ ret = [r \in Requests |-> NoReturn]
    /\ slot = [r \in Requests |-> <<>>]
    /\ closed = [r \in Requests |-> FALSE]
    /\ sends = [r \in Requests |-> 0]
    /\ totalRequests = 0
    /\ totalBatches = 0
    /\ avgBatchSize = <<0, 1>>
    /\ admitted = <<>>
    /\ dispatched = <<>>
    /\ stopBatches = -1
    /\ stopAdmitted = -1
    /\ stopClosed = 0
    /\ wait = [r \in Requests |-> 0]
    /\ reqId = [r \in Requests |-> NewUUID(r)]
    /\ backend = NoBackend
    /\ payload = [r \in Requests |-> [body |-> r, json |-> TRUE]]
    /\ batchReq = <<>>
    /\ mainPc = "lib"
    /\ LockInit

\* ---------------------------------------------------------------- helpers
SeqSet(s) == {s[i] : i \in 1..Len(s)}

\* The correlation id Submit was called with.
IdOf(r) == reqId[r]

\* A faulty queue that hands out the newest element first.
EnqueueLifo(q, r) == <<r>> \o q

\* `b.requestChan <- req`: a channel is a FIFO, the new element goes last.
Enqueue(q, r) == Append(q, r)

\* A faulty loop condition that admits one Request too many.
LoopCondOffByOne(n) == n <= maxBatchSize

\* `for len(batch.Requests) < b.maxBatchSize`
LoopCond(n) == n < maxBatchSize

\* A faulty timer that fires one tick before b.timeout has passed.
TimerFiredEarly(e) == e + 1 >= Timeout

\* A faulty timer armed for longer than b.timeout.
TimerFiredLate(e) == e >= Timeout + 1

\* `<-timer.C` of time.NewTimer(b.timeout)
TimerFired(e) == e >= Timeout

\* A faulty batchLoop that starts processBatch in its own goroutine and goes on
\* collecting at once.
CollectStepAsync(nb) ==
    IF LoopCond(Len(nb))
    THEN /\ batch' = nb
         /\ wpc' = "filling"
         /\ dispatched' = dispatched
    ELSE /\ batch' = <<>>
         /\ wpc' = "idle"
         /\ dispatched' = Append(dispatched, nb)

\* The worker has the Requests nb in its batch after a receive (collectBatch,
\* lines 125-126 and 136-139): it stays in the loop or returns the batch, and
\* batchLoop hands a non-empty batch to processBatch.
CollectStep(nb) ==
    /\ batch' = nb
    /\ IF LoopCond(Len(nb))
       THEN /\ wpc' = "filling"
            /\ dispatched' = dispatched
       ELSE IF Len(nb) > 0
            THEN /\ wpc' = "dispatching"
                 /\ dispatched' = Append(dispatched, nb)
            ELSE /\ wpc' = "idle"
                 /\ dispatched' = dispatched

\* collectBatch returns the batch under construction (timer or stop case).
CloseBatch ==
    /\ batch' = batch
    /\ IF Len(batch) > 0
       THEN /\ wpc' = "dispatching"
            /\ dispatched' = Append(dispatched, batch)
       ELSE /\ wpc' = "idle"
            /\ dispatched' = dispatched

\* --------------------------------------------------------- Start and Stop
Start ==
    /\ wpc = "init"
    /\ wpc' = "idle"
    /\ UNCHANGED <<inputVars, maxBatchSize, queue, stopVars, batch, elapsed, submitVars,
                   slotVars, metricVars, histVars, wait>>

Stop ==
    /\ stopPc = "none"
    /\ stopped' = TRUE
    /\ stopPc' = "waiting"
    /\ stopBatches' = Len(dispatched)
    /\ stopAdmitted' = Len(admitted)
    /\ UNCHANGED <<inputVars, maxBatchSize, queue, wpc, batch, elapsed, submitVars,
                   slotVars, metricVars, histVars, wait>>

\* A faulty Stop that also waits for the queue to be empty.
StopReturnWhenDrained ==
    /\ stopPc = "waiting"
    /\ wpc \in {"init", "done"}
    /\ queue = <<>>
    /\ stopPc' = "returned"
    /\ UNCHANGED <<inputVars, maxBatchSize, queue, stopped, stopBatches, stopAdmitted, wpc, batch,
                   elapsed, submitVars, slotVars, metricVars, histVars, wait>>

\* `b.wg.Wait()` returns once batchLoop has returned (at once when Start was
\* never called).
StopReturn ==
    /\ stopPc = "waiting"
    /\ wpc \in {"init", "done"}
    /\ stopPc' = "returned"
    /\ UNCHANGED <<inputVars, maxBatchSize, queue, stopped, stopBatches, stopAdmitted, wpc, batch,
                   elapsed, submitVars, slotVars, metricVars, histVars, wait>>

\* ------------------------------------------------------------------ Submit
\* The Requests are interchangeable: they are numbered in the order in which the
\* first select of their Submit call resolves.
InOrder(r) == \A q \in Requests : q < r => spc[q] \in {"wait", "done"}

\* A faulty queue without back-pressure: the send is always ready.
SendReadyAlways == TRUE

\* The send case of Submit's first select is ready: the buffer has room, or
\* (unbuffered channel) the worker is blocked in the receive of its first select.
SendReady ==
    \/ Len(queue) < QueueCap
    \/ QueueCap = 0 /\ wpc = "idle"

SubmitSend(r) ==
    /\ spc[r] \in {"new", "send"}
    /\ InOrder(r)
    /\ SendReady
    /\ spc' = [spc EXCEPT ![r] = "wait"]
    /\ admitted' = Append(admitted, r)
    /\ IF QueueCap > 0
       THEN /\ queue' = Enqueue(queue, r)
            /\ UNCHANGED <<wpc, batch, elapsed, dispatched>>
       ELSE /\ queue' = queue
            /\ elapsed' = 0
            /\ CollectStep(<<r>>)
    /\ UNCHANGED <<inputVars, maxBatchSize, stopVars, cancelled, ret, slotVars, metricVars,
                   stopClosed, wait>>

SubmitBlock(r) ==
    /\ spc[r] = "new"
    /\ ~SendReady
    /\ ~cancelled[r]
    /\ spc' = [spc EXCEPT ![r] = "send"]
    /\ UNCHANGED <<inputVars, maxBatchSize, queue, stopVars, wpc, batch, elapsed, cancelled, ret,
                   slotVars, metricVars, histVars, wait>>

SubmitCtxDoneBeforeEnqueue(r) ==
    /\ spc[r] \in {"new", "send"}
    /\ InOrder(r)
    /\ cancelled[r]
    /\ spc' = [spc EXCEPT ![r] = "done"]
    /\ ret' = [ret EXCEPT ![r] = [data |-> "", err |-> ErrCancelled]]
    /\ UNCHANGED <<inputVars, maxBatchSize, queue, stopVars, wpc, batch, elapsed, cancelled,
                   slotVars, metricVars, histVars, wait>>

\* The reply arrives; the caller's deferred cancel() closes ctx.Done() on return.
SubmitRecv(r) ==
    /\ spc[r] = "wait"
    /\ Len(slot[r]) > 0
    /\ spc' = [spc EXCEPT ![r] = "done"]
    /\ ret' = [ret EXCEPT ![r] = [data |-> Head(slot[r]).data, err |-> Head(slot[r]).err]]
    /\ slot' = [slot EXCEPT ![r] = Tail(slot[r])]
    /\ cancelled' = [cancelled EXCEPT ![r] = TRUE]
    /\ UNCHANGED <<inputVars, maxBatchSize, queue, stopVars, wpc, batch, elapsed,
                   closed, sends, metricVars, histVars, wait>>

SubmitCtxDoneAfterEnqueue(r) ==
    /\ spc[r] = "wait"
    /\ cancelled[r]
    /\ spc' = [spc EXCEPT ![r] = "done"]
    /\ ret' = [ret EXCEPT ![r] = [data |-> "", err |-> ErrCancelled]]
    /\ UNCHANGED <<inputVars, maxBatchSize, queue, stopVars, wpc, batch, elapsed, cancelled,
                   slotVars, metricVars, histVars, wait>>

\* The caller's ctx is cancelled (or its deadline passes) while Submit has not returned.
Cancel(r) ==
    /\ spc[r] # "done"
    /\ ~cancelled[r]
    /\ cancelled' = [cancelled EXCEPT ![r] = TRUE]
    /\ UNCHANGED <<inputVars, maxBatchSize, queue, stopVars, wpc, batch, elapsed, spc, ret,
                   slotVars, metricVars, histVars, wait>>

\* ------------------------------------------------- batchLoop / collectBatch
\* A faulty receive that leaves the Request in the queue.
TakeFirstPeek ==
    /\ wpc = "idle"
    /\ queue # <<>>
    /\ queue' = queue
    /\ elapsed' = 0
    /\ CollectStep(<<Head(queue)>>)
    /\ UNCHANGED <<inputVars, maxBatchSize, stopVars, submitVars, slotVars, metricVars, admitted,
                   stopClosed, wait>>

\* First select of collectBatch, receive case.
TakeFirst ==
    /\ wpc = "idle"
    /\ queue # <<>>
    /\ queue' = Tail(queue)
    /\ elapsed' = 0
    /\ CollectStep(<<Head(queue)>>)
    /\ UNCHANGED <<inputVars, maxBatchSize, stopVars, submitVars, slotVars, metricVars, admitted,
                   stopClosed, wait>>

\* A faulty first select whose stop case returns the empty batch, which a
\* batchLoop without its length test hands to processBatch.
StopIdleDispatch ==
    /\ wpc = "idle"
    /\ stopped
    /\ wpc' = "dispatching"
    /\ dispatched' = Append(dispatched, batch)
    /\ UNCHANGED <<inputVars, maxBatchSize, queue, stopVars, batch, elapsed, submitVars, slotVars,
                   metricVars, admitted, stopClosed, wait>>

\* First select of collectBatch, stop case: collectBatch returns nil, batchLoop returns.
StopIdle ==
    /\ wpc = "idle"
    /\ stopped
    /\ wpc' = "done"
    /\ UNCHANGED <<inputVars, maxBatchSize, queue, stopVars, batch, elapsed, submitVars, slotVars,
                   metricVars, histVars, wait>>

\* Second select of collectBatch, receive case.
TakeMore ==
    /\ wpc = "filling"
    /\ queue # <<>>
    /\ queue' = Tail(queue)
    /\ CollectStep(Append(batch, Head(queue)))
    /\ UNCHANGED <<inputVars, maxBatchSize, stopVars, elapsed, submitVars, slotVars, metricVars,
                   admitted, stopClosed, wait>>

\* Second select of collectBatch, timer case.
TimerClose ==
    /\ wpc = "filling"
    /\ TimerFired(elapsed)
    /\ CloseBatch
    /\ UNCHANGED <<inputVars, maxBatchSize, queue, stopVars, elapsed, submitVars, slotVars,
                   metricVars, admitted, stopClosed, wait>>

\* Second select of collectBatch, stop case.
StopClose ==
    /\ wpc = "filling"
    /\ stopped
    /\ CloseBatch
    /\ stopClosed' = Len(dispatched')
    /\ UNCHANGED <<inputVars, maxBatchSize, queue, stopVars, elapsed, submitVars, slotVars,
                   metricVars, admitted, wait>>

\* ------------------------------------------------------------ processBatch
\* ModelClient.ProcessBatch on success, the backend answering every id in order.
OkResponses(b) == [i \in 1..Len(b) |-> [id |-> IdOf(b[i]), data |-> "result", err |-> ""]]

\* A faulty errorResponses that gives the error to the first Request only.
errorResponsesFirstOnly(b, e) ==
    [i \in 1..Len(b) |-> [id |-> IdOf(b[i]), data |-> "", err |-> IF i = 1 THEN e ELSE ""]]

\* ModelClient.errorResponses
errorResponses(b, e) == [i \in 1..Len(b) |-> [id |-> IdOf(b[i]), data |-> "", err |-> e]]

\* The backend answers in reverse order and leaves out the first Request's id.
ShuffledResponses(b) ==
    [i \in 1..(Len(b) - 1) |->
        [id |-> IdOf(b[Len(b) + 1 - i]), data |-> "result", err |-> ""]]

\* A faulty conversion that drops the tuple's error field.
ConvertDropError(t) == [id |-> t.id, data |-> t.result, err |-> ""]

\* One SingleResponse converted to a batcher.Response: ID and Data are copied,
\* Error is set when the error string is not empty.
Convert(t) == [id |-> t.id, data |-> t.result, err |-> t.error]

\* `fmt.Errorf("model server returned status %d: %s", ...)`
StatusError(status) ==
    IF status >= 500 THEN "model server returned status 5xx"
    ELSE "model server returned status 2xx"

\* What one exchange with the model server can do: fail at an I/O step, or
\* answer with a status and a body that parses to a list of tuples or does not.
Steps == {"marshal", "newrequest", "transport", "read"}
Statuses == {StatusOK, StatusOK + 1, 503}
Tuples ==
    [id : 1..(NumRequests + 1), result : {"", "result"}, error : {"", ErrModel}]
TupleSeqs == UNION {[1..n -> Tuples] : n \in 0..MaxTuples}
BackendOutcomes ==
    [step : Steps, status : {0}, parses : {FALSE}, tuples : {<<>>}]
    \cup {o \in [step : {"ok"}, status : Statuses, parses : BOOLEAN, tuples : TupleSeqs] :
            ~o.parses => o.tuples = <<>>}

\* A faulty construction that lists the pairs newest first.
BuildBatchRequestReversed(b) ==
    [i \in 1..Len(b) |-> [id |-> IdOf(b[Len(b) + 1 - i]), data |-> payload[b[Len(b) + 1 - i]]]]

\* `batchReq.Requests[i] = SingleRequest{ID: req.ID, Data: req.Payload}`
BuildBatchRequest(b) == [i \in 1..Len(b) |-> [id |-> IdOf(b[i]), data |-> payload[b[i]]]]

\* A faulty ProcessBatch that parses the reply of every 2xx status.
ProcessBatchAny2xx(b, o) ==
    IF o.step = "marshal" THEN errorResponses(b, ErrMarshal)
    ELSE IF o.step = "newrequest" THEN errorResponses(b, ErrNewRequest)
    ELSE IF o.step = "transport" THEN errorResponses(b, ErrBackend)
    ELSE IF o.step = "read" THEN errorResponses(b, ErrRead)
    ELSE IF o.status < StatusOK \/ o.status >= StatusOK + 100
         THEN errorResponses(b, StatusError(o.status))
    ELSE IF ~o.parses THEN errorResponses(b, ErrUnmarshal)
    ELSE [i \in 1..Len(o.tuples) |-> Convert(o.tuples[i])]

\* ModelClient.ProcessBatch for batch b when the exchange goes as o.
ProcessBatch(b, o) ==
    IF o.step = "marshal" THEN errorResponses(b, ErrMarshal)
    ELSE IF o.step = "newrequest" THEN errorResponses(b, ErrNewRequest)
    ELSE IF o.step = "transport" THEN errorResponses(b, ErrBackend)
    ELSE IF o.step = "read" THEN errorResponses(b, ErrRead)
    ELSE IF o.status # StatusOK THEN errorResponses(b, StatusError(o.status))
    ELSE IF ~o.parses THEN errorResponses(b, ErrUnmarshal)
    ELSE [i \in 1..Len(o.tuples) |-> Convert(o.tuples[i])]

\* What processFunc may return for batch b.
ProcessFuncReturns(b) ==
    {OkResponses(b), errorResponses(b, ErrBackend), ShuffledResponses(b)}

\* The position of Request r in the current batch (0 when it is not in it).
PosInBatch(r) ==
    IF \E i \in 1..Len(batch) : batch[i] = r
    THEN CHOOSE i \in 1..Len(batch) : batch[i] = r
    ELSE 0

\* A faulty routing by position instead of by id.
ResponseForByPosition(responses, r) ==
    IF PosInBatch(r) \in 1..Len(responses)
    THEN responses[PosInBatch(r)]
    ELSE [id |-> IdOf(r), data |-> "", err |-> ErrResponseNotFound]

\* A faulty routing that hands out each Response of the map once: a later
\* Request of the batch with the same id finds nothing.
ResponseForOnce(responses, r) ==
    LET hits == {i \in 1..Len(responses) : responses[i].id = IdOf(r)} IN
    IF hits = {} \/ \E k \in 1..(PosInBatch(r) - 1) : IdOf(batch[k]) = IdOf(r)
    THEN [id |-> IdOf(r), data |-> "", err |-> ErrResponseNotFound]
    ELSE responses[CHOOSE i \in hits : \A j \in hits : j <= i]

\* A faulty routing that answers a miss with an empty Response.
ResponseForMissEmpty(responses, r) ==
    LET hits == {i \in 1..Len(responses) : responses[i].id = IdOf(r)} IN
    IF hits = {}
    THEN [id |-> IdOf(r), data |-> "", err |-> ""]
    ELSE responses[CHOOSE i \in hits : \A j \in hits : j <= i]

\* responseMap[id] after the loop of lines 164-167: the last Response with that id.
ResponseFor(responses, r) ==
    LET hits == {i \in 1..Len(responses) : responses[i].id = IdOf(r)} IN
    IF hits = {}
    THEN [id |-> IdOf(r), data |-> "", err |-> ErrResponseNotFound]
    ELSE responses[CHOOSE i \in hits : \A j \in hits : j <= i]

\* A faulty reply slot without buffer: the send completes only while the caller
\* is still receiving.
SendCompletesIfWaiting(r) == spc[r] = "wait"

\* The send `req.Response <- resp` completes without blocking.
SendCompletes(r) == Len(slot[r]) < ReplyCap

\* A faulty processBatch that updates the metrics before it routes the replies.
DeliverAfterMetrics(responses) ==
    /\ slot' = slot
    /\ closed' = closed
    /\ sends' = sends
    /\ wpc' = "metrics"

\* A faulty processBatch that lets a failed dispatch end the worker.
DeliverDiesOnError(responses) ==
    LET stuck == {i \in 1..Len(batch) : ~SendCompletes(batch[i])}
        upto == IF stuck = {} THEN Len(batch)
                ELSE (CHOOSE i \in stuck : \A j \in stuck : i <= j) - 1
        done == {batch[i] : i \in 1..upto}
    IN  /\ slot' = [r \in Requests |->
                      IF r \in done THEN Append(slot[r], ResponseFor(responses, r))
                      ELSE slot[r]]
        /\ closed' = [r \in Requests |-> closed[r] \/ r \in done]
        /\ sends' = [r \in Requests |-> IF r \in done THEN sends[r] + 1 ELSE sends[r]]
        /\ wpc' = IF stuck # {} THEN "blocked"
                  ELSE IF \E i \in 1..Len(responses) : responses[i].err = ErrBackend
                       THEN "done"
                       ELSE "metrics"

\* processFunc returns; the loop of lines 169-179 sends and closes, in batch order,
\* until a send blocks.
Deliver(responses) ==
    LET stuck == {i \in 1..Len(batch) : ~SendCompletes(batch[i])}
        upto == IF stuck = {} THEN Len(batch)
                ELSE (CHOOSE i \in stuck : \A j \in stuck : i <= j) - 1
        done == {batch[i] : i \in 1..upto}
    IN  /\ slot' = [r \in Requests |->
                      IF r \in done THEN Append(slot[r], ResponseFor(responses, r))
                      ELSE slot[r]]
        /\ closed' = [r \in Requests |-> closed[r] \/ r \in done]
        /\ sends' = [r \in Requests |-> IF r \in done THEN sends[r] + 1 ELSE sends[r]]
        /\ wpc' = IF stuck = {} THEN "metrics" ELSE "blocked"

ProcessReturn ==
    /\ wpc = "dispatching"
    /\ \E responses \in ProcessFuncReturns(batch) : Deliver(responses)
    /\ UNCHANGED <<inputVars, maxBatchSize, queue, stopVars, batch, elapsed, submitVars, metricVars,
                   histVars, wait>>

\* A faulty counter that counts one per batch.
AddBatchSizeOne(total, batchSize) == total + 1

\* `b.totalRequests += int64(batchSize)`
AddBatchSize(total, batchSize) == total + batchSize

\* updateMetrics, then batchLoop calls collectBatch again.
UpdateMetrics ==
    /\ wpc = "metrics"
    /\ totalRequests' = AddBatchSize(totalRequests, Len(batch))
    /\ totalBatches' = totalBatches + 1
    /\ avgBatchSize' = <<totalRequests', totalBatches'>>
    /\ wpc' = "idle"
    /\ batch' = <<>>
    /\ elapsed' = 0
    /\ wait' = [r \in Requests |-> IF r \in SeqSet(batch) THEN 0 ELSE wait[r]]
    /\ UNCHANGED <<inputVars, maxBatchSize, queue, stopVars, submitVars, slotVars, histVars>>

\* ------------------------------------------- updateMetrics, step by step
\* The worker, the readers and everything but the counters and the lock.
workerRest ==
    <<maxBatchSize, queue, stopVars, wpc, batch, elapsed, submitVars, slotVars, histVars,
      wait, reqId, backend, payload, batchReq, mainPc, rpc, snap>>

\* A faulty processBatch that takes the lock before it calls processFunc.
MuLockBeforeProcessFunc ==
    /\ wpc = "dispatching"
    /\ upc = "out"
    /\ ~mu.writer /\ mu.readers = 0
    /\ mu' = [mu EXCEPT !.writer = TRUE]
    /\ upc' = "locked"
    /\ UNCHANGED <<workerRest, metricVars>>

\* `b.mu.Lock()` in updateMetrics, which processBatch calls after the replies:
\* it waits until no reader and no writer holds the lock.
MuLock ==
    /\ wpc = "metrics"
    /\ upc = "out"
    /\ ~mu.writer /\ mu.readers = 0
    /\ mu' = [mu EXCEPT !.writer = TRUE]
    /\ upc' = "locked"
    /\ UNCHANGED <<workerRest, metricVars>>

\* `b.totalRequests += int64(batchSize)`
WriteTotalRequests ==
    /\ upc = "locked"
    /\ totalRequests' = AddBatchSize(totalRequests, Len(batch))
    /\ upc' = "requests"
    /\ UNCHANGED <<workerRest, mu, totalBatches, avgBatchSize>>

\* `b.totalBatches++`
WriteTotalBatches ==
    /\ upc = "requests"
    /\ totalBatches' = totalBatches + 1
    /\ upc' = "batches"
    /\ UNCHANGED <<workerRest, mu, totalRequests, avgBatchSize>>

\* `b.avgBatchSize = float64(b.totalRequests) / float64(b.totalBatches)`
WriteAvgBatchSize ==
    /\ upc = "batches"
    /\ avgBatchSize' = <<totalRequests, totalBatches>>
    /\ upc' = "avg"
    /\ UNCHANGED <<workerRest, mu, totalRequests, totalBatches>>

\* The deferred `b.mu.Unlock()`; updateMetrics and processBatch return and
\* batchLoop calls collectBatch again.
MuUnlock ==
    /\ upc = "avg"
    /\ mu' = [mu EXCEPT !.writer = FALSE]
    /\ upc' = "out"
    /\ wpc' = "idle"
    /\ batch' = <<>>
    /\ elapsed' = 0
    /\ wait' = [r \in Requests |-> IF r \in SeqSet(batch) THEN 0 ELSE wait[r]]
    /\ UNCHANGED <<maxBatchSize, queue, stopVars, submitVars, slotVars, histVars, metricVars,
                   reqId, backend, payload, batchReq, mainPc, rpc, snap>>

\* ------------------------------------------------------------- Metrics()
\* Everything but the lock and the reader's own state.
readerRest ==
    <<maxBatchSize, queue, stopVars, wpc, batch, elapsed, submitVars, slotVars, histVars,
      metricVars, wait, reqId, backend, payload, batchReq, mainPc, upc>>

\* A faulty Metrics() that does not wait for the writer.
MetricsRLockNoWait(k) ==
    /\ rpc[k] = "idle"
    /\ mu' = [mu EXCEPT !.readers = @ + 1]
    /\ rpc' = [rpc EXCEPT ![k] = "locked"]
    /\ UNCHANGED <<readerRest, snap>>

\* `b.mu.RLock()`: it waits while the writer holds the lock.
MetricsRLock(k) ==
    /\ rpc[k] = "idle"
    /\ ~mu.writer
    /\ mu' = [mu EXCEPT !.readers = @ + 1]
    /\ rpc' = [rpc EXCEPT ![k] = "locked"]
    /\ UNCHANGED <<readerRest, snap>>

\* `return b.totalRequests, b.totalBatches, b.avgBatchSize`: the operands are
\* read from left to right.
ReadTotalRequests(k) ==
    /\ rpc[k] = "locked"
    /\ snap' = [snap EXCEPT ![k].totalRequests = totalRequests]
    /\ rpc' = [rpc EXCEPT ![k] = "requests"]
    /\ UNCHANGED <<readerRest, mu>>

ReadTotalBatches(k) ==
    /\ rpc[k] = "requests"
    /\ snap' = [snap EXCEPT ![k].totalBatches = totalBatches]
    /\ rpc' = [rpc EXCEPT ![k] = "batches"]
    /\ UNCHANGED <<readerRest, mu>>

ReadAvgBatchSize(k) ==
    /\ rpc[k] = "batches"
    /\ snap' = [snap EXCEPT ![k].avgBatchSize = avgBatchSize]
    /\ rpc' = [rpc EXCEPT ![k] = "avg"]
    /\ UNCHANGED <<readerRest, mu>>

\* The deferred `b.mu.RUnlock()`; Metrics() returns the three values.
MetricsReturn(k) ==
    /\ rpc[k] = "avg"
    /\ mu' = [mu EXCEPT !.readers = @ - 1]
    /\ rpc' = [rpc EXCEPT ![k] = "idle"]
    /\ UNCHANGED <<readerRest, snap>>

\* -------------------------------------------------------------------- time
\* A case of the select the worker is blocked in is ready.
WorkerReady ==
    \/ wpc = "idle" /\ (queue # <<>> \/ stopped)
    \/ wpc = "idle" /\ QueueCap = 0 /\ \E r \in Requests : spc[r] = "send"
    \/ wpc = "filling" /\ (queue # <<>> \/ stopped \/ TimerFired(elapsed))
    \/ wpc = "metrics"

\* The Requests admitted and not yet handed to processFunc.
Pending == SeqSet(queue) \cup (IF wpc = "filling" THEN SeqSet(batch) ELSE {})

Min(a, b) == IF a < b THEN a ELSE b

Tick ==
    /\ ~WorkerReady
    /\ wpc \notin {"init", "done"}
    /\ wait' = [r \in Requests |-> IF r \in Pending THEN Min(wait[r] + 1, AgeCap) ELSE wait[r]]
    /\ elapsed' = IF wpc = "filling" THEN Min(elapsed + 1, AgeCap) ELSE elapsed
    /\ UNCHANGED <<inputVars, maxBatchSize, queue, stopVars, wpc, batch, submitVars, slotVars,
                   metricVars, histVars>>

\* ----------------------------------------------------------- specification
Next ==
    \/ Start
    \/ Stop
    \/ StopReturn
    \/ \E r \in Requests : SubmitSend(r)
    \/ \E r \in Requests : SubmitBlock(r)
    \/ \E r \in Requests : SubmitCtxDoneBeforeEnqueue(r)
    \/ \E r \in Requests : SubmitRecv(r)
    \/ \E r \in Requests : SubmitCtxDoneAfterEnqueue(r)
    \/ \E r \in Requests : Cancel(r)
    \/ TakeFirst
    \/ StopIdle
    \/ TakeMore
    \/ TimerClose
    \/ StopClose
    \/ ProcessReturn
    \/ UpdateMetrics
    \/ Tick

Spec == Init /\ [][Next]_vars

\* ---------------------------------------------------------------------------
\* Progress.  The worker goroutine is scheduled whenever one of its steps is
\* possible, a processFunc call returns (the HTTP client has a timeout), time
\* passes, and the goroutine that called Stop resumes when wg.Wait() can return.
WorkerStep ==
    \/ TakeFirst
    \/ StopIdle
    \/ TakeMore
    \/ TimerClose
    \/ StopClose
    \/ ProcessReturn
    \/ UpdateMetrics

Fairness ==
    /\ WF_vars(WorkerStep)
    /\ WF_vars(Tick)
    /\ WF_vars(StopReturn)

LiveSpec == Spec /\ Fairness

\* ---------------------------------------------------------------------------
\* Back-to-back load: the batcher of a maxBatchSize >= 1 under producers that
\* never cancel and submit nothing more once a batch was closed short or stop
\* was signalled; the timer case is taken only when no Request is available in
\* the queue.  Stop may be signalled at any time.
InitFill == Init /\ maxBatchSize >= 1

\* Every batch dispatched so far is full.
AllFull == \A i \in 1..Len(dispatched) : Len(dispatched[i]) = maxBatchSize

FillSubmit(r) == ~stopped /\ AllFull /\ SubmitSend(r)

FillTimerClose == queue = <<>> /\ TimerClose

NextFill ==
    \/ Start
    \/ \E r \in Requests : FillSubmit(r)
    \/ \E r \in Requests : SubmitRecv(r)
    \/ TakeFirst
    \/ TakeMore
    \/ FillTimerClose
    \/ Stop
    \/ StopClose
    \/ StopIdle
    \/ StopReturn
    \/ ProcessReturn
    \/ UpdateMetrics
    \/ Tick

FillSpec == InitFill /\ [][NextFill]_vars

\* ---------------------------------------------------------------------------
\* The process (cmd/server/main.go): main creates and starts the batcher,
\* serves HTTP, and on SIGINT or SIGTERM shuts the server down, stops the
\* batcher and returns.

\* main has called New and Start and the HTTP server is listening.
InitMain ==
    /\ maxBatchSize \in 0..MaxBatchSizeBound
    /\ queue = <<>>
    /\ stopped = FALSE
    /\ stopPc = "none"
    /\ wpc = "idle"
    /\ batch = <<>>
    /\ elapsed = 0
    /\ spc = [r \in Requests |-> "new"]
    /\ cancelled = [r \in Requests |-> FALSE]
    /\ ret = [r \in Requests |-> NoReturn]
    /\ slot = [r \in Requests |-> <<>>]
    /\ closed = [r \in Requests |-> FALSE]
    /\ sends = [r \in Requests |-> 0]
    /\ totalRequests = 0
    /\ totalBatches = 0
    /\ avgBatchSize = <<0, 1>>
    /\ admitted = <<>>
    /\ dispatched = <<>>
    /\ stopBatches = -1
    /\ stopAdmitted = -1
    /\ stopClosed = 0
    /\ wait = [r \in Requests |-> 0]
    /\ reqId = [r \in Requests |-> NewUUID(r)]
    /\ backend = NoBackend
    /\ payload = [r \in Requests |-> [body |-> r, json |-> TRUE]]
    /\ batchReq = <<>>
    /\ mainPc = "serving"
    /\ LockInit

batcherVars ==
    <<maxBatchSize, queue, stopped, stopPc, wpc, batch, elapsed, spc, cancelled,
      ret, slot, closed, sends, totalRequests, totalBatches, avgBatchSize,
      admitted, dispatched, stopBatches, stopAdmitted, stopClosed, wait>>

\* `<-quit` returns: SIGINT or SIGTERM was delivered.
Signal ==
    /\ mainPc = "serving"
    /\ mainPc' = "signalled"
    /\ UNCHANGED <<batcherVars, lockVars, reqId, backend, payload, batchReq>>

\* `server.Shutdown(ctx)` returns: the listeners are closed and the handlers
\* have finished or the 30 s of ctx have passed.
ServerShutdown ==
    /\ mainPc = "signalled"
    /\ mainPc' = "shutdown"
    /\ UNCHANGED <<batcherVars, lockVars, reqId, backend, payload, batchReq>>

\* A faulty main that stops the batcher while the server is still shutting down.
StopCallableEarly == mainPc \in {"signalled", "shutdown"}

\* main is at `b.Stop()`.
StopCallable == mainPc = "shutdown"

MainStop == StopCallable /\ Stop

\* b.Stop() has returned; main returns and the process exits.
Exit ==
    /\ mainPc = "shutdown"
    /\ stopPc = "returned"
    /\ mainPc' = "exited"
    /\ UNCHANGED <<batcherVars, lockVars, reqId, backend, payload, batchReq>>

\* The process is alive.
Running == mainPc # "exited"

\* A handler can begin its Submit call: the server has not finished shutting down.
Serving(r) == spc[r] = "new" => mainPc \in {"serving", "signalled"}

NextMain ==
    \/ Signal
    \/ ServerShutdown
    \/ MainStop
    \/ Exit
    \/ Running /\ StopReturn
    \/ \E r \in Requests : Running /\ Serving(r) /\ SubmitSend(r)
    \/ \E r \in Requests : Running /\ Serving(r) /\ SubmitBlock(r)
    \/ \E r \in Requests : Running /\ Serving(r) /\ SubmitCtxDoneBeforeEnqueue(r)
    \/ \E r \in Requests : Running /\ SubmitRecv(r)
    \/ \E r \in Requests : Running /\ SubmitCtxDoneAfterEnqueue(r)
    \/ \E r \in Requests : Running /\ Cancel(r)
    \/ Running /\ TakeFirst
    \/ Running /\ StopIdle
    \/ Running /\ TakeMore
    \/ Running /\ TimerClose
    \/ Running /\ StopClose
    \/ Running /\ ProcessReturn
    \/ Running /\ UpdateMetrics
    \/ Running /\ Tick

MainSpec == InitMain /\ [][NextMain]_vars

\* ---------------------------------------------------------------------------
\* The dispatcher: one batch in the hands of processBatch, for every way the
\* exchange with the model server can go.

\* The worker has closed the batch of the first n Requests, all admitted and
\* waiting in Submit's second select, and is about to call processFunc.
DispatchStart(ids) ==
    /\ maxBatchSize \in 1..MaxBatchSizeBound
    /\ \E n \in 1..Min(maxBatchSize, NumRequests) :
        /\ batch = [i \in 1..n |-> i]
        /\ spc = [r \in Requests |-> IF r <= n THEN "wait" ELSE "new"]
    /\ admitted = batch
    /\ dispatched = <<batch>>
    /\ queue = <<>>
    /\ stopped = FALSE
    /\ stopPc = "none"
    /\ wpc = "dispatching"
    /\ elapsed = 0
    /\ cancelled = [r \in Requests |-> FALSE]
    /\ ret = [r \in Requests |-> NoReturn]
    /\ slot = [r \in Requests |-> <<>>]
    /\ closed = [r \in Requests |-> FALSE]
    /\ sends = [r \in Requests |-> 0]
    /\ totalRequests = 0
    /\ totalBatches = 0
    /\ avgBatchSize = <<0, 1>>
    /\ stopBatches = -1
    /\ stopAdmitted = -1
    /\ stopClosed = 0
    /\ wait = [r \in Requests |-> 0]
    /\ reqId = ids
    /\ payload \in [Requests -> [body : Requests, json : BOOLEAN]]
    /\ \A r \in Requests : payload[r].body = r
    /\ backend \in BackendOutcomes
    /\ backend.step = "marshal" <=> \E r \in SeqSet(batch) : ~payload[r].json
    /\ batchReq = <<>>
    /\ mainPc = "lib"
    /\ LockInit

\* The Requests carry the ids predictHandler generated.
InitDispatch == DispatchStart([r \in Requests |-> NewUUID(r)])

\* processFunc returns what ModelClient.ProcessBatch computes and processBatch
\* routes it to the reply slots.
DispatchReturn ==
    /\ wpc = "dispatching"
    /\ batchReq' = BuildBatchRequest(batch)
    /\ Deliver(ProcessBatch(batch, backend))
    /\ UNCHANGED <<lockVars, reqId, backend, payload, mainPc, maxBatchSize, queue, stopVars, batch, elapsed,
                   submitVars, metricVars, histVars, wait>>

NextDispatch ==
    \/ DispatchReturn
    \/ \E r \in Requests : SubmitRecv(r)
    \/ UpdateMetrics

DispatchSpec == InitDispatch /\ [][NextDispatch]_vars

\* ---------------------------------------------------------------------------
\* The same with callers of Submit that pass ids of their own: the batch holds
\* two Requests with one id.  Ids are numbered in order of first use.
DuplicateIds ==
    {ids \in [Requests -> Requests] :
        /\ ids[1] = 1
        /\ \A r \in Requests : r > 1 => \E q \in 1..(r - 1) : ids[r] <= ids[q] + 1}

InitDuplicate ==
    /\ \E ids \in DuplicateIds : DispatchStart(ids)
    /\ \E i, j \in 1..Len(batch) : i # j /\ reqId[batch[i]] = reqId[batch[j]]
    /\ \A r \in Requests : payload[r].json

DuplicateSpec == InitDuplicate /\ [][NextDispatch]_vars

\* ---------------------------------------------------------------------------
\* The batcher with updateMetrics taken step by step and the handlers' calls
\* of Metrics() running beside the worker.
NextMetrics ==
    \/ Start
    \/ Stop
    \/ StopReturn
    \/ \E r \in Requests : SubmitSend(r)
    \/ \E r \in Requests : SubmitBlock(r)
    \/ \E r \in Requests : SubmitCtxDoneBeforeEnqueue(r)
    \/ \E r \in Requests : SubmitRecv(r)
    \/ \E r \in Requests : SubmitCtxDoneAfterEnqueue(r)
    \/ \E r \in Requests : Cancel(r)
    \/ TakeFirst
    \/ StopIdle
    \/ TakeMore
    \/ TimerClose
    \/ StopClose
    \/ ProcessReturn
    \/ MuLock
    \/ WriteTotalRequests
    \/ WriteTotalBatches
    \/ WriteAvgBatchSize
    \/ MuUnlock
    \/ \E k \in Readers : MetricsRLock(k)
    \/ \E k \in Readers : ReadTotalRequests(k)
    \/ \E k \in Readers : ReadTotalBatches(k)
    \/ \E k \in Readers : ReadAvgBatchSize(k)
    \/ \E k \in Readers : MetricsReturn(k)
    \/ Tick

MetricsSpec == Init /\ [][NextMetrics]_vars

TypeOK ==
    /\ maxBatchSize \in 0..MaxBatchSizeBound
    /\ wpc \in {"init", "idle", "filling", "dispatching", "blocked", "metrics", "done"}
    /\ Len(queue) <= QueueCap
    /\ mu \in [writer : BOOLEAN, readers : 0..NumReaders]
    /\ upc \in {"out", "locked", "requests", "batches", "avg"}
    /\ \A k \in Readers : rpc[k] \in {"idle", "locked", "requests", "batches", "avg"}
    /\ mu.writer <=> upc # "out"
    /\ mu.readers = Cardinality({k \in Readers : rpc[k] # "idle"})
    /\ ~(mu.writer /\ mu.readers > 0)

\* ===================================================================
\* Properties
\* ===================================================================
AdmittedSet == SeqSet(admitted)
DispatchedSet == UNION {SeqSet(dispatched[i]) : i \in 1..Len(dispatched)}

\* The Requests that entered requestChan before stopChan was closed.
AdmittedBeforeStop == {admitted[i] : i \in 1..stopAdmitted}

\* Of those, the ones no batch dispatched before the stop signal contains.
PendingAtStop ==
    AdmittedBeforeStop \ UNION {SeqSet(dispatched[i]) : i \in 1..stopBatches}

\* Exactly one Response has been sent to r's reply slot and the slot is closed.
Answered(r) == sends[r] = 1 /\ closed[r]

\* Submit returned the cancellation error after its Request was enqueued.
CancelledAfterEnqueue(r) ==
    r \in AdmittedSet /\ spc[r] = "done" /\ ret[r].err = ErrCancelled

\* C1 (in the form a finite run refutes): once the worker has terminated, every
\* Request that was enqueued before the stop signal has had exactly one Response
\* sent to its reply slot and the slot closed.
C1_EveryEnqueuedAnswered ==
    wpc = "done" => \A r \in AdmittedBeforeStop : Answered(r)

\* r is in the last batch the worker dispatched, and that batch was dispatched
\* after the stop signal.
InFinalBatch(r) ==
    /\ Len(dispatched) > stopBatches
    /\ Len(dispatched) > 0
    /\ r \in SeqSet(dispatched[Len(dispatched)])

\* A Response reached r's slot although r was never handed to the dispatcher:
\* the batcher failed r itself (the shutdown error).
GotShutdownError(r) == r \notin DispatchedSet /\ sends[r] >= 1

\* C2: after stop, every Request enqueued and not yet dispatched at stop time is
\* in the final dispatched batch or has received a shutdown error, never both and
\* never neither (read once the worker has terminated).
C2_DrainedOrFailed ==
    wpc = "done" => \A r \in PendingAtStop : InFinalBatch(r) # GotShutdownError(r)

\* C3: a Submit that starts after the stop signal never places its Request in
\* the admission queue.
C3_NoAdmissionAfterStop ==
    [][\A r \in Requests : (stopped /\ spc[r] = "new") => spc'[r] # "wait"]_vars

\* C4: once the stop case has closed a batch under construction, that batch is
\* the last one dispatched and the worker takes no further Request to start
\* another batch.
C4_StopClosesLastBatch ==
    stopClosed > 0 => (Len(dispatched) = stopClosed /\ wpc # "filling")

\* C5 as stated: every dispatched batch has between 1 and maxBatchSize Requests,
\* for every maxBatchSize New accepts.
C5_Original ==
    \A i \in 1..Len(dispatched) :
        Len(dispatched[i]) >= 1 /\ Len(dispatched[i]) <= maxBatchSize

\* C5 (amended): every dispatched batch has at least 1 Request; it has at most
\* maxBatchSize Requests when maxBatchSize >= 1, and exactly 1 when
\* maxBatchSize = 0.
C5_SizeBound ==
    \A i \in 1..Len(dispatched) :
        /\ Len(dispatched[i]) >= 1
        /\ maxBatchSize >= 1 => Len(dispatched[i]) <= maxBatchSize
        /\ maxBatchSize = 0 => Len(dispatched[i]) = 1

C5_Witness ==
    maxBatchSize >= 2 /\ \E i \in 1..Len(dispatched) : Len(dispatched[i]) = maxBatchSize

BatchIndex(r) == CHOOSE i \in 1..Len(dispatched) : r \in SeqSet(dispatched[i])
PosIn(b, r) == CHOOSE k \in 1..Len(b) : b[k] = r

\* C6: FIFO admission.  If R1 was enqueued before R2 and both are in dispatched
\* batches, R1's batch index is <= R2's, and inside one batch R1 comes first.
C6_FIFO ==
    \A p, q \in 1..Len(admitted) :
        (p < q /\ admitted[p] \in DispatchedSet /\ admitted[q] \in DispatchedSet) =>
            LET bp == BatchIndex(admitted[p])
                bq == BatchIndex(admitted[q])
            IN  \/ bp < bq
                \/ /\ bp = bq
                   /\ PosIn(dispatched[bp], admitted[p]) < PosIn(dispatched[bq], admitted[q])

C6_Witness ==
    /\ Len(admitted) >= 2
    /\ admitted[1] \in DispatchedSet
    /\ admitted[2] \in DispatchedSet

C8_SizeWinsOverTimer ==
    [][(/\ wpc = "filling"
        /\ Len(batch) = maxBatchSize - 1
        /\ TimerFired(elapsed)
        /\ queue # <<>>
        /\ ~stopped
        /\ wpc' = "dispatching") => Len(batch') = maxBatchSize]_vars

\* C9: when the ctx is cancelled before the Request has been enqueued, the
\* Request never enters the queue, and Submit returns the cancellation error.
C9_CancelledNeverEnqueued ==
    [][\A r \in Requests :
        (cancelled[r] /\ spc[r] \in {"new", "send"}) =>
            /\ spc'[r] # "wait"
            /\ spc'[r] = "done" => ret'[r].err = ErrCancelled]_vars

\* C10 (in the form a finite run refutes): once the worker has terminated, every
\* Request whose Submit returned cancellation after the Request was enqueued
\* (before the stop signal) has been in a dispatched batch, has had exactly one
\* Response sent to its slot with the worker never blocked, and all batches are
\* counted in the metrics.
C10_CancelledStillProcessed ==
    wpc = "done" =>
        \A r \in AdmittedBeforeStop :
            CancelledAfterEnqueue(r) =>
                /\ r \in DispatchedSet
                /\ Answered(r)
                /\ totalBatches = Len(dispatched)

\* C11: reply-slot invariant.  For every Request the batcher performs at most
\* one send on its reply slot, the slot is closed exactly when that send has
\* been made, and no send ever blocks the worker, whether or not the caller is
\* still waiting.
C11_ReplySlot ==
    /\ wpc # "blocked"
    /\ \A r \in Requests :
        /\ sends[r] <= 1
        /\ closed[r] <=> sends[r] = 1
        /\ Len(slot[r]) <= sends[r]

\* A reply was sent and the slot closed after the caller had abandoned its wait.
C11_Witness ==
    \E r \in Requests :
        /\ CancelledAfterEnqueue(r)
        /\ sends[r] = 1
        /\ closed[r]
        /\ Len(slot[r]) = 1

\* --- the dispatcher's replies (DispatchSpec) ---

\* The batch in the hands of the dispatcher.
Batch0 == dispatched[1]

\* processBatch has routed the replies of that batch.
Routed == wpc # "dispatching"

\* The exchange failed at one of the dispatcher's steps.
Failed(o) == o.step \in Steps \/ o.status # StatusOK \/ ~o.parses

\* The positions of the reply tuples that carry Request r's id.
Hits(r) == {i \in 1..Len(backend.tuples) : backend.tuples[i].id = IdOf(r)}

\* The tuple responseMap keeps for Request r (the last one with its id).
TupleFor(r) == backend.tuples[CHOOSE i \in Hits(r) : \A j \in Hits(r) : j <= i]

\* (payload, error) of the Response delivered to Request r, in its slot or
\* already returned by Submit.
Outcome(r) ==
    IF slot[r] # <<>>
    THEN [data |-> slot[r][1].data, err |-> slot[r][1].err]
    ELSE ret[r]

\* C12: dispatch failure is total at batch granularity.  When the exchange
\* fails at any step, every Request of the batch gets one Response with an
\* error and no payload, and all these errors are equal.
C12_FailureTotal ==
    (Failed(backend) /\ Routed) =>
        \A r \in SeqSet(Batch0) :
            /\ sends[r] = 1
            /\ Outcome(r).data = ""
            /\ Outcome(r).err # ""
            /\ \A q \in SeqSet(Batch0) : Outcome(q).err = Outcome(r).err

\* A batch of two was answered after the model server returned a non-200
\* status, and both callers have their error.
C12_Witness ==
    /\ backend.step = "ok"
    /\ backend.status # StatusOK
    /\ Len(Batch0) = 2
    /\ \A r \in SeqSet(Batch0) : spc[r] = "done" /\ ret[r].err = StatusError(backend.status)

\* C13: routing is by id, not by position.  Whatever the order of the reply
\* tuples, the Response delivered to a Request carries that Request's id, and
\* when the reply has a tuple for that id it is that tuple's Response.
C13_RoutedById ==
    \A r \in Requests :
        slot[r] # <<>> =>
            /\ slot[r][1].id = IdOf(r)
            /\ (~Failed(backend) /\ Hits(r) # {}) => slot[r][1] = Convert(TupleFor(r))

\* The reply lists the two Requests of the batch in reverse order with different
\* contents, and both replies are delivered.
C13_Witness ==
    /\ ~Failed(backend)
    /\ Len(Batch0) = 2
    /\ Len(backend.tuples) = 2
    /\ backend.tuples[1].id = IdOf(Batch0[2])
    /\ backend.tuples[2].id = IdOf(Batch0[1])
    /\ backend.tuples[1].result # backend.tuples[2].result
    /\ \A r \in SeqSet(Batch0) : Len(slot[r]) = 1

\* C14: a routing miss is per Request.  In a successful reply, a Request gets
\* the error "response not found" exactly when no tuple carries its id, and
\* then no payload; Requests outside the batch get nothing, so a tuple with an
\* unknown id is delivered to nobody.
C14_MissPerRequest ==
    (~Failed(backend) /\ Routed) =>
        /\ \A r \in SeqSet(Batch0) :
            /\ sends[r] = 1
            /\ Hits(r) = {} <=> Outcome(r).err = ErrResponseNotFound
            /\ Hits(r) = {} => Outcome(r).data = ""
        /\ \A r \in Requests \ SeqSet(Batch0) : sends[r] = 0 /\ slot[r] = <<>>

\* The reply answers the first Request of a batch of two and an id that is in
\* no batch: the second Request gets "response not found", the first its result.
C14_Witness ==
    /\ ~Failed(backend)
    /\ Len(Batch0) = 2
    /\ Hits(Batch0[2]) = {}
    /\ \E i \in 1..Len(backend.tuples) : backend.tuples[i].id = NumRequests + 1
    /\ Len(slot[Batch0[1]]) = 1
    /\ slot[Batch0[1]][1].data = "result"
    /\ Len(slot[Batch0[2]]) = 1
    /\ slot[Batch0[2]][1].err = ErrResponseNotFound

\* C15: a per-request backend error is isolated.  In a successful reply, a
\* Request gets an error exactly when its own tuple carries one (and then that
\* message), and a Request whose tuple carries no error gets its payload.
C15_ErrorIsolated ==
    (~Failed(backend) /\ Routed) =>
        \A r \in SeqSet(Batch0) :
            Hits(r) # {} =>
                /\ Outcome(r).err = TupleFor(r).error
                /\ TupleFor(r).error = "" => Outcome(r).data = TupleFor(r).result

\* The reply carries an error for the first Request and a result for the
\* second; the first caller returned the error, the second its payload.
C15_Witness ==
    /\ ~Failed(backend)
    /\ Len(Batch0) = 2
    /\ Hits(Batch0[1]) # {} /\ TupleFor(Batch0[1]) = [id |-> IdOf(Batch0[1]), result |-> "", error |-> ErrModel]
    /\ Hits(Batch0[2]) # {} /\ TupleFor(Batch0[2]).error = ""
    /\ spc[Batch0[1]] = "done" /\ ret[Batch0[1]] = [data |-> "", err |-> ErrModel]
    /\ spc[Batch0[2]] = "done" /\ ret[Batch0[2]] = [data |-> "result", err |-> ""]

\* C16: every Response delivered to a reply slot has at most one of (result
\* payload, error) populated.
C16_AtMostOne ==
    \A r \in Requests :
        slot[r] # <<>> => ~(slot[r][1].data # "" /\ slot[r][1].err # "")

\* C17: every Submit call that has returned yields exactly one of a non-empty
\* result and an error.
C17_ExactlyOne ==
    \A r \in Requests :
        spc[r] = "done" => ((ret[r].data # "") # (ret[r].err # ""))

\* The batches whose processBatch call has returned.
Processed ==
    IF wpc \in {"dispatching", "blocked", "metrics"}
    THEN Len(dispatched) - 1
    ELSE Len(dispatched)

RECURSIVE SumSizes(_)
SumSizes(k) == IF k = 0 THEN 0 ELSE Len(dispatched[k]) + SumSizes(k - 1)

\* C18: metrics consistency.  Whenever the worker is not inside processBatch,
\* totalBatches is the number of batches dispatched so far, totalRequests the
\* sum of their sizes, and avgBatchSize their quotient (0 before the first batch).
C18_Metrics ==
    /\ totalBatches = Processed
    /\ totalRequests = SumSizes(Processed)
    /\ avgBatchSize = IF totalBatches = 0 THEN <<0, 1>> ELSE <<totalRequests, totalBatches>>

\* A batch of two Requests has been counted, one of them answered with an error
\* or abandoned by its caller.
C18_Witness ==
    /\ wpc = "idle"
    /\ totalBatches = 1
    /\ totalRequests = 2
    /\ \E r \in SeqSet(dispatched[1]) :
        Len(slot[r]) = 1 /\ slot[r][1].err # ""

\* C19: dispatch is strictly serial.  Only the batch dispatched last can be in
\* flight: every earlier batch has had all its replies delivered, and while the
\* worker is taking Requests from the queue (or has terminated) no batch is in
\* flight at all.
C19_Serial ==
    /\ \A i \in 1..(Len(dispatched) - 1) : \A r \in SeqSet(dispatched[i]) : Answered(r)
    /\ wpc \in {"idle", "filling", "done"} =>
        \A i \in 1..Len(dispatched) : \A r \in SeqSet(dispatched[i]) : Answered(r)

\* A second batch is in flight after the first one has been answered.
C19_Witness ==
    /\ wpc = "dispatching"
    /\ Len(dispatched) >= 2

\* C20: within every batch formed by the batcher (dispatched or under
\* construction), all Request ids are pairwise distinct, the ids being the
\* ones predictHandler generates.
C20_DistinctIds ==
    \A b \in SeqSet(dispatched) \cup {batch} :
        \A i, j \in 1..Len(b) : i # j => IdOf(b[i]) # IdOf(b[j])

\* A batch of two Requests has been dispatched.
C20_Witness ==
    \E i \in 1..Len(dispatched) : Len(dispatched[i]) >= 2

\* The status code predictHandler writes for Request r once Submit has returned:
\* 500 when Submit returned an error, 200 otherwise (400 is written only when
\* reading the body fails, before Submit is called).
HttpStatus(r) == IF ret[r].err # "" THEN 500 ELSE 200

\* C21: a malformed request (a body that is not JSON) is answered 400 and does
\* not change the outcome of another caller's request: no caller with a
\* well-formed body gets the marshal error of somebody else's body.
C21_MalformedRejected ==
    \A r \in Requests :
        spc[r] = "done" =>
            /\ ~payload[r].json => HttpStatus(r) = 400
            /\ payload[r].json => ret[r].err # ErrMarshal

\* C30: the backend request built for a batch has one (id, data) pair per
\* Request of the batch, the i-th pair carrying the id and the payload of the
\* batch's i-th Request.
C30_RequestPairs ==
    Routed =>
        /\ Len(batchReq) = Len(Batch0)
        /\ \A i \in 1..Len(Batch0) :
            /\ batchReq[i].id = reqId[Batch0[i]]
            /\ batchReq[i].data = payload[Batch0[i]]

\* The request for a batch of two has been built.
C30_Witness ==
    /\ Routed
    /\ Len(Batch0) = 2
    /\ Len(batchReq) = 2
    /\ batchReq[1] # batchReq[2]

\* C26: in IDLE the worker holds no batch and leaves IDLE in two ways only: on
\* the stop signal it terminates without a dispatch, and on a queue arrival
\* the arriving Request becomes the one element of a new batch.  No empty batch
\* is ever dispatched.
C26_Idle ==
    /\ [](wpc = "idle" => batch = <<>>)
    /\ [](\A i \in 1..Len(dispatched) : Len(dispatched[i]) >= 1)
    /\ [][wpc = "idle" =>
            \/ /\ wpc' = "idle"
               /\ batch' = batch
               /\ dispatched' = dispatched
            \/ /\ wpc' = "done"
               /\ stopped
               /\ dispatched' = dispatched
            \/ /\ wpc' \in {"filling", "dispatching"}
               /\ Len(batch') = 1
               /\ \/ queue # <<>> /\ batch'[1] = Head(queue)
                  \/ queue = <<>> /\ admitted' = Append(admitted, batch'[1])
               /\ dispatched' = IF wpc' = "dispatching" THEN Append(dispatched, batch')
                                ELSE dispatched]_vars

\* The worker took a Request from IDLE, dispatched it, and later terminated
\* from IDLE on the stop signal with a Request still in the queue.
C26_Witness ==
    /\ wpc = "done"
    /\ Len(dispatched) >= 1
    /\ queue # <<>>

\* C27: each batch has its own timer, armed when its first Request is
\* appended.  The timer reads 0 whenever the worker leaves IDLE with a new
\* batch, whatever time has passed since the previous batch; it does not run
\* outside FILLING; and a batch that leaves FILLING with fewer than
\* maxBatchSize Requests does so on the stop signal or with Timeout ticks on
\* its own timer.
C27_OwnTimer ==
    /\ [][(wpc = "idle" /\ wpc' # "idle" /\ wpc' # "done") => elapsed' = 0]_vars
    /\ [][(wpc # "filling" /\ wpc' # "filling") => (elapsed' = elapsed \/ elapsed' = 0)]_vars
    /\ [][(wpc = "filling" /\ wpc' # "filling" /\ Len(batch') < maxBatchSize) =>
            (stopped \/ elapsed >= Timeout)]_vars
    /\ [][(wpc = "filling" /\ wpc' = "filling") =>
            (Len(batch') > Len(batch) \/ batch' = batch)]_vars

\* A second batch was closed by its own timer after the timer of the first batch
\* had run out as well.
C27_Witness ==
    /\ ~stopped
    /\ wpc = "dispatching"
    /\ Len(dispatched) = 2
    /\ Len(batch) < maxBatchSize
    /\ elapsed = Timeout
    /\ Len(dispatched[1]) < maxBatchSize

C29_DeliveredWins ==
    \A r \in Requests :
        []((Len(slot[r]) > 0 /\ ~cancelled[r]) =>
              [](spc[r] = "done" => ret[r].err # ErrCancelled))

\* A batch whose dispatch failed has been answered.
FailedBatchSeen == \E q \in Requests : sends[q] = 1 /\ Outcome(q).err = ErrBackend

\* C22: a batch-level failure does not bring the batcher down.  Once a batch
\* has failed, the worker comes back to IDLE, and every Request that is or
\* gets enqueued is answered unless the stop signal is raised.
C22_SurvivesFailure ==
    /\ FailedBatchSeen ~> (wpc \in {"idle", "done"})
    /\ \A r \in Requests :
        (FailedBatchSeen /\ r \in AdmittedSet) ~> (Answered(r) \/ stopped)

\* After a first batch failed, a second batch was formed, dispatched and
\* answered with a result, with no stop signal.
C22_Witness ==
    /\ ~stopped
    /\ Len(dispatched) = 2
    /\ \E q \in SeqSet(dispatched[1]) : sends[q] = 1 /\ Outcome(q).err = ErrBackend
    /\ \E r \in SeqSet(dispatched[2]) : Answered(r) /\ Outcome(r).data = "result"

C23_ExactFill ==
    LET N == Len(admitted)
        M == maxBatchSize
        K == Len(dispatched)
    IN  /\ \A i \in 1..(K - 1) : Len(dispatched[i]) = M
        /\ (wpc = "done" \/ (queue = <<>> /\ wpc \notin {"init", "filling"})) =>
            /\ K = (N + M - 1) \div M
            /\ K > 0 => Len(dispatched[K]) = (IF N % M = 0 THEN M ELSE N % M)
        /\ (wpc = "dispatching" /\ Len(batch) < M) => (stopped \/ elapsed >= Timeout)

\* C25: process shutdown order.  The batcher's stop signal is raised only
\* after server.Shutdown has returned (the server no longer accepts requests),
\* and the process exits only after Stop() has returned with the worker
\* terminated.
C25_ShutdownOrder ==
    /\ stopped => mainPc \in {"shutdown", "exited"}
    /\ stopPc # "none" => stopped
    /\ mainPc = "exited" => (stopped /\ stopPc = "returned" /\ wpc = "done")

\* The process has exited after a signal, with a batch dispatched before the
\* shutdown.
C25_Witness ==
    /\ mainPc = "exited"
    /\ wpc = "done"
    /\ Len(dispatched) >= 1

\* How many times Request r occurs in the sequence b.
Occurrences(b, r) == Cardinality({k \in 1..Len(b) : b[k] = r})

RECURSIVE OccurrencesIn(_, _)
OccurrencesIn(k, r) ==
    IF k = 0 THEN 0 ELSE Occurrences(dispatched[k], r) + OccurrencesIn(k - 1, r)

\* C34: no Request is processed twice.  Over the queue, the batch under
\* construction and all dispatched batches together, every Request occurs at
\* most once, and never before it was admitted.
C34_ProcessedOnce ==
    \A r \in Requests :
        /\ Occurrences(queue, r)
            + (IF wpc = "filling" THEN Occurrences(batch, r) ELSE 0)
            + OccurrencesIn(Len(dispatched), r)
            <= Occurrences(admitted, r)
        /\ Occurrences(admitted, r) <= 1

\* Two Requests went out in two batches and the worker then terminated on stop.
C34_Witness ==
    /\ wpc = "done"
    /\ stopped
    /\ Len(dispatched) = 2
    /\ DispatchedSet = Requests

\* C35: the metrics count a batch only after every Request of it has had its
\* Response sent and its slot closed.
C35_MetricsAfterReplies ==
    /\ totalBatches <= Len(dispatched)
    /\ \A i \in 1..totalBatches : \A r \in SeqSet(dispatched[i]) : Answered(r)

\* A caller has received the reply of the first batch while the metrics do not
\* count that batch yet.
C35_Witness ==
    /\ wpc = "metrics"
    /\ totalBatches = 0
    /\ \E r \in SeqSet(dispatched[1]) : spc[r] = "done" /\ ret[r].data = "result"

\* C36: the reply is parsed only when the status is exactly 200.  For every
\* other status every Request of the batch gets the status error and no
\* payload, whatever the body holds.
C36_Only200 ==
    (backend.step = "ok" /\ backend.status # StatusOK /\ Routed) =>
        \A r \in SeqSet(Batch0) :
            Outcome(r) = [data |-> "", err |-> StatusError(backend.status)]

\* The model server answered 201 with a body holding a result for the Request,
\* and the Request got the status error.
C36_Witness ==
    /\ backend.step = "ok"
    /\ backend.status = StatusOK + 1
    /\ backend.parses
    /\ \E i \in 1..Len(backend.tuples) :
        /\ backend.tuples[i] = [id |-> IdOf(Batch0[1]), result |-> "result", error |-> ""]
    /\ Len(slot[Batch0[1]]) = 1
    /\ slot[Batch0[1]][1].err = StatusError(backend.status)

\* C33: two Requests with one id in a batch.  The worker is never blocked,
\* every Request of the batch gets exactly one Response on its own slot (so
\* its caller can return), and Requests with the same id get the same
\* Response.
C33_DuplicateIds ==
    /\ wpc # "blocked"
    /\ Routed =>
        \A r \in SeqSet(Batch0) :
            /\ sends[r] = 1 /\ closed[r]
            /\ spc[r] = "done" \/ Len(slot[r]) = 1
            /\ \A q \in SeqSet(Batch0) : IdOf(q) = IdOf(r) => Outcome(q) = Outcome(r)
            /\ (~Failed(backend) /\ Hits(r) # {}) =>
                Outcome(r) = [data |-> TupleFor(r).result, err |-> TupleFor(r).error]

\* Both callers of a batch of two Requests with one id have returned the result
\* of the last tuple the reply held for that id.
C33_Witness ==
    /\ Len(Batch0) = 2
    /\ IdOf(Batch0[1]) = IdOf(Batch0[2])
    /\ ~Failed(backend)
    /\ Len(backend.tuples) = 2
    /\ backend.tuples[1] = [id |-> IdOf(Batch0[1]), result |-> "", error |-> ErrModel]
    /\ backend.tuples[2] = [id |-> IdOf(Batch0[1]), result |-> "result", error |-> ""]
    /\ \A r \in SeqSet(Batch0) : spc[r] = "done" /\ ret[r] = [data |-> "result", err |-> ""]

\* The values after the first n batches were counted.
MetricsAfter(n) ==
    [totalRequests |-> SumSizes(n), totalBatches |-> n,
     avgBatchSize |-> IF n = 0 THEN <<0, 1>> ELSE <<SumSizes(n), n>>]

\* C31: the metrics lock is free whenever the worker is inside processFunc (or
\* delivering the replies), so RLock of a Metrics() caller does not wait.
C31_LockFreeDuringDispatch ==
    wpc \in {"dispatching", "blocked"} =>
        /\ ~mu.writer
        /\ upc = "out"

\* A reader holds the read lock while the worker is inside processFunc for the
\* second batch.
C31_Witness ==
    /\ wpc = "dispatching"
    /\ totalBatches = 1
    /\ \E k \in Readers : rpc[k] = "requests" /\ snap[k].totalRequests = totalRequests

\* C32: every snapshot Metrics() has returned holds the values after a whole
\* number of counted batches: n batches, the sum of their sizes, and the
\* quotient of the two (0 for n = 0).
C32_SnapshotConsistent ==
    \A k \in Readers : rpc[k] = "idle" =>
        \E n \in 0..Len(dispatched) : snap[k] = MetricsAfter(n)

\* A snapshot taken between the first and the second update has been returned,
\* and the second update has since been made.
C32_Witness ==
    /\ totalBatches = 2
    /\ \E k \in Readers : rpc[k] = "idle" /\ snap[k] = MetricsAfter(1)

====
